---- MODULE Spec2Model ----
(***************************************************************************)
(* Speech-to-speech subsystem of generative-ai-use-cases (packages/web).   *)
(*                                                                         *)
(* useChatHistory.ts holds three revisions of the transcript reconciler.   *)
(* Each is modelled as its own record variable, and all three are fed the  *)
(* same text events:                                                       *)
(*   stageHist   - lines   4..92 : messageCache / generationStageCache /   *)
(*                                 stopReasonCache, FINAL-only promotion   *)
(*   eventHist   - lines 111..281: eventMessages groups + derived messages *)
(*   partialHist - lines 294..392: isPartial messages + interrupted ref    *)
(* useSpeechToSpeech/index.ts is the session controller.                   *)
(***************************************************************************)
EXTENDS Integers, Sequences, FiniteSets, TLC

(***************************************************************************)
(* Bounds of the model (not program constants).                            *)
(***************************************************************************)
MaxIds == 2

\* How often one generation id may receive textOutput.
MaxOutputs == 1

\* textOutput events per generation id where fragments of one id are followed.
MaxFragments == 2

\* Calls from the page: startSession calls that pass the guard (each opens one
\* channel) plus closeSession calls.
MaxCalls == 3

\* Inbound `ready` envelopes, and whatever else the subscriptions deliver (end,
\* audioOutput, text events, envelopes the handler ignores, errors).
MaxReady == 1

\* Inbound `ready` envelopes where several start-ups are followed.
MaxLongReady == 2

MaxInbound == 1

\* Chunks the capture callback may leave queued, and audioInput batches.
MaxQueue == 11

MaxBatches == 1

\* The same two bounds in the specification of the audio path alone.
MaxLongQueue == 22

MaxLongBatches == 2

\* How far beyond [-1, 1] the samples given to the codec go, in units of
\* 1/SampleGrid.
MaxOver == 4

\* Executions of processAudioQueue of the worklet hook that await their publish
\* at one time, and pending 100 ms timers.
MaxPublishing == 2

MaxTimers == 2

(***************************************************************************)
(* Program constants.                                                      *)
(***************************************************************************)
MIN_AUDIO_CHUNKS_PER_BATCH == 10

MAX_AUDIO_CHUNKS_PER_BATCH == 20

\* 0x7fff, the factor of float32ArrayToInt16Array (index.ts line 28), and
\* 32768.0, the divisor of base64ToFloat32Array (line 44).
INT16_MAX == 32767

INT16_RANGE == 32768

MAX_QUEUE_SIZE == 200

MAX_CHUNKS_PER_BATCH == 5

(***************************************************************************)
(* Value domains of the wire protocol.                                     *)
(***************************************************************************)
\* JavaScript `undefined` (an absent cache slot or an absent optional field).
Undefined == "<undefined>"

AllIds == <<"g1", "g2", "g3", "g4">>

Ids == {AllIds[i] : i \in 1..MaxIds}

Roles == {"user", "assistant"}

Stages == {"SPECULATIVE", "FINAL"}

StopReasons == {"END_TURN", "PARTIAL_TURN", "INTERRUPTED"}

\* The fragment the model sends for a generation id (or the empty string).
ContentOf(id) == CASE id = "g1" -> "foo" [] id = "g2" -> "bar" [] id = "g3" -> "baz" [] OTHER -> "qux"

Contents == {""} \cup {ContentOf(i) : i \in Ids}

Prompts == {"", "You are helpful"}

\* JavaScript truthiness of a string-or-undefined value.
Truthy(x) == x # Undefined /\ x # ""

\* JavaScript `a ?? b`.
Coalesce(a, b) == IF a # Undefined THEN a ELSE b

NoMessage == [role |-> Undefined, content |-> Undefined]

NoEntity(id) == [id |-> id, role |-> Undefined, content |-> Undefined, generationStage |-> Undefined, stopReason |-> Undefined]

(***************************************************************************)
(* Revision 1 (stageHist): useChatHistory.ts lines 4..92.                  *)
(***************************************************************************)
StageHistInit ==
    [messages |-> <<>>,
     isAssistantSpeeching |-> FALSE,
     messageCache |-> [i \in Ids |-> NoMessage],
     generationStageCache |-> [i \in Ids |-> Undefined],
     stopReasonCache |-> [i \in Ids |-> Undefined],
     fault |-> FALSE]

StageClear(h) ==
    IF h.fault THEN h
    ELSE [h EXCEPT !.messages = <<>>,
                   !.messageCache = [i \in Ids |-> NoMessage],
                   !.generationStageCache = [i \in Ids |-> Undefined],
                   !.stopReasonCache = [i \in Ids |-> Undefined]]

StageSetupSystemPrompt(h, prompt) ==
    IF h.fault THEN h
    ELSE [h EXCEPT !.messages = <<[role |-> "system", content |-> prompt]>>]

\* The setMessages updater of tryUpdateMessage (lines 42..59).  On an empty
\* list lastMessage is undefined and `lastMessage.role` throws a TypeError
\* while React renders: the hook is dead from then on (fault).
StageMerge(h, role, content) ==
    IF h.messages = <<>> THEN [h EXCEPT !.fault = TRUE]
    ELSE LET n == Len(h.messages)
             lastMessage == h.messages[n]
             messagesWithoutLast == SubSeq(h.messages, 1, n - 1)
         IN  IF lastMessage.role = role
             THEN [h EXCEPT !.messages = Append(messagesWithoutLast,
                        [lastMessage EXCEPT !.content = lastMessage.content \o " " \o content])]
             ELSE [h EXCEPT !.messages = Append(h.messages, [role |-> role, content |-> content])]

StageResolvable(h, id) ==
    /\ h.messageCache[id] # NoMessage
    /\ Truthy(h.generationStageCache[id])
    /\ Truthy(h.stopReasonCache[id])
    /\ h.generationStageCache[id] = "FINAL"
    /\ h.stopReasonCache[id] # "INTERRUPTED"

StageTryUpdateMessage(h, id) ==
    IF StageResolvable(h, id)
    THEN StageMerge(h, h.messageCache[id].role, h.messageCache[id].content)
    ELSE h

StageOnTextStart(h, d) ==
    IF h.fault THEN h
    ELSE LET h1 == [h EXCEPT !.generationStageCache[d.id] = d.generationStage]
             h2 == StageTryUpdateMessage(h1, d.id)
         IN  [h2 EXCEPT !.isAssistantSpeeching =
                  (d.role = "assistant" /\ d.generationStage = "SPECULATIVE")]

StageOnTextOutput(h, d) ==
    IF h.fault THEN h
    ELSE StageTryUpdateMessage(
            [h EXCEPT !.messageCache[d.id] = [role |-> d.role, content |-> d.content]], d.id)

StageOnTextStop(h, d) ==
    IF h.fault THEN h
    ELSE StageTryUpdateMessage([h EXCEPT !.stopReasonCache[d.id] = d.stopReason], d.id)

(***************************************************************************)
(* Revision 2 (eventHist): useChatHistory.ts lines 111..281.               *)
(***************************************************************************)
SystemEntity(prompt) ==
    [id |-> "system", role |-> "system", content |-> prompt,
     generationStage |-> "FINAL", stopReason |-> "END_TURN"]

EventHistInit ==
    [eventMessages |-> <<>>,
     eventMessageCache |-> [i \in Ids |-> NoEntity(i)],
     fault |-> FALSE]

EventClear(h) ==
    IF h.fault THEN h
    ELSE [h EXCEPT !.eventMessages = <<>>,
                   !.eventMessageCache = [i \in Ids |-> NoEntity(i)]]

EventSetupSystemPrompt(h, prompt) ==
    IF h.fault THEN h
    ELSE [h EXCEPT !.eventMessages = << <<SystemEntity(prompt)>> >>]

\* lastEventMessages.filter(m => m.generationStage === 'FINAL').length
CountFinals(ms) == Cardinality({i \in 1..Len(ms) : ms[i].generationStage = "FINAL"})

\* The setEventMessages updater (lines 154..182).  On an empty list
\* lastEventMessages is undefined and `lastEventMessages[0]` throws.
EventMerge(h, newEntity) ==
    IF h.eventMessages = <<>> THEN [h EXCEPT !.fault = TRUE]
    ELSE LET n == Len(h.eventMessages)
             lastEventMessages == h.eventMessages[n]
             eventMessagesWithoutLast == SubSeq(h.eventMessages, 1, n - 1)
         IN  IF lastEventMessages[1].role = newEntity.role
             THEN IF newEntity.generationStage = "FINAL"
                  THEN LET countFinals == CountFinals(lastEventMessages)
                           beforeEventMessages == SubSeq(lastEventMessages, 1, countFinals)
                           afterEventMessages ==
                               SubSeq(lastEventMessages, countFinals + 2, Len(lastEventMessages))
                       IN  [h EXCEPT !.eventMessages = Append(eventMessagesWithoutLast,
                               beforeEventMessages \o <<newEntity>> \o afterEventMessages)]
                  ELSE [h EXCEPT !.eventMessages =
                            Append(eventMessagesWithoutLast, Append(lastEventMessages, newEntity))]
             ELSE [h EXCEPT !.eventMessages = Append(h.eventMessages, <<newEntity>>)]

\* Mutant: FINAL resolves without waiting for a stop reason.
EventResolvableFinalWithoutStop(e) ==
    /\ Truthy(e.role) /\ Truthy(e.content) /\ Truthy(e.generationStage)
    /\ (e.generationStage = "FINAL" \/ Truthy(e.stopReason))

\* if (newEntity.role && newEntity.content && newEntity.generationStage && newEntity.stopReason)
EventResolvable(e) ==
    Truthy(e.role) /\ Truthy(e.content) /\ Truthy(e.generationStage) /\ Truthy(e.stopReason)

EventTryUpdateEventMessage(h, tmp) ==
    IF h.fault THEN h
    ELSE LET cur == h.eventMessageCache[tmp.id]
             newEntity == [id |-> tmp.id,
                           role |-> Coalesce(tmp.role, cur.role),
                           content |-> Coalesce(tmp.content, cur.content),
                           generationStage |-> Coalesce(tmp.generationStage, cur.generationStage),
                           stopReason |-> Coalesce(tmp.stopReason, cur.stopReason)]
             h1 == [h EXCEPT !.eventMessageCache[tmp.id] = newEntity]
         IN  IF EventResolvable(newEntity) THEN EventMerge(h1, newEntity) ELSE h1

EventOnTextStart(h, d) ==
    EventTryUpdateEventMessage(h,
        [id |-> d.id, role |-> d.role, content |-> Undefined,
         generationStage |-> d.generationStage, stopReason |-> Undefined])

EventOnTextOutput(h, d) ==
    EventTryUpdateEventMessage(h,
        [id |-> d.id, role |-> d.role, content |-> d.content,
         generationStage |-> Undefined, stopReason |-> Undefined])

EventOnTextStop(h, d) ==
    EventTryUpdateEventMessage(h,
        [id |-> d.id, role |-> Undefined, content |-> Undefined,
         generationStage |-> Undefined, stopReason |-> d.stopReason])

\* ms.map(m => m.content).join(' ')
RECURSIVE JoinContents(_)
JoinContents(ms) ==
    IF ms = <<>> THEN ""
    ELSE IF Len(ms) = 1 THEN ms[1].content
    ELSE ms[1].content \o " " \o JoinContents(Tail(ms))

\* ms.findIndex(m => m.stopReason === 'INTERRUPTED'), 1-based, 0 when absent.
InterruptedIndex(ms) ==
    LET hits == {i \in 1..Len(ms) : ms[i].stopReason = "INTERRUPTED"}
    IN  IF hits = {} THEN 0 ELSE CHOOSE i \in hits : \A j \in hits : i <= j

\* The loop of the `messages` memo (lines 214..251) over the remaining groups.
\* fault: `res[res.length - 1]` on an empty res.
RECURSIVE DeriveMessages(_, _, _)
DeriveMessages(groups, res, interrupted) ==
    IF groups = <<>> THEN [res |-> res, fault |-> FALSE]
    ELSE LET ms == Head(groups)
         IN  IF interrupted
             THEN IF res = <<>> THEN [res |-> res, fault |-> TRUE]
                  ELSE DeriveMessages(Tail(groups),
                          [res EXCEPT ![Len(res)].content = @ \o " " \o JoinContents(ms)], FALSE)
             ELSE LET interruptedIndex == InterruptedIndex(ms)
                  IN  IF interruptedIndex = 1
                      THEN DeriveMessages(Tail(groups), res, TRUE)
                      ELSE IF interruptedIndex > 1
                      THEN DeriveMessages(Tail(groups),
                              Append(res, [role |-> ms[1].role,
                                           content |-> JoinContents(SubSeq(ms, 1, interruptedIndex - 1))]),
                              FALSE)
                      ELSE DeriveMessages(Tail(groups),
                              Append(res, [role |-> ms[1].role, content |-> JoinContents(ms)]),
                              FALSE)

\* messages of revision 2.
EventMessages(h) == DeriveMessages(h.eventMessages, <<>>, FALSE).res

\* isAssistantSpeeching of revision 2 (lines 253..269).
EventIsAssistantSpeeching(h) ==
    IF h.eventMessages = <<>> THEN FALSE
    ELSE LET lastEventMessages == h.eventMessages[Len(h.eventMessages)]
         IN  /\ lastEventMessages[1].role = "assistant"
             /\ \E i \in 1..Len(lastEventMessages) :
                    lastEventMessages[i].generationStage = "SPECULATIVE"

(***************************************************************************)
(* Revision 3 (partialHist): useChatHistory.ts lines 294..392.             *)
(* It has no onTextStart: a textStart event leaves it unchanged.           *)
(***************************************************************************)
PartialHistInit ==
    [messages |-> <<>>,
     messageCache |-> [i \in Ids |-> NoMessage],
     stopReasonCache |-> [i \in Ids |-> Undefined],
     interrupted |-> FALSE]

\* clear() resets neither stopReasonCache nor interrupted (lines 300..303).
PartialClear(h) ==
    [h EXCEPT !.messages = <<>>, !.messageCache = [i \in Ids |-> NoMessage]]

PartialSetupSystemPrompt(h, prompt) ==
    [h EXCEPT !.messages = <<[role |-> "system", content |-> prompt, isPartial |-> FALSE]>>]

\* The setMessages updater of updateMessages (lines 322..349).
PartialMerge(messages, newMessage) ==
    IF messages = <<>> THEN <<>>
    ELSE LET n == Len(messages)
             lastMessage == messages[n]
             messagesWithoutLast == SubSeq(messages, 1, n - 1)
         IN  IF lastMessage.role # newMessage.role
             THEN Append(messages, newMessage)
             ELSE IF lastMessage.isPartial /\ ~newMessage.isPartial
             THEN Append(messagesWithoutLast, newMessage)
             ELSE Append(messagesWithoutLast,
                     [lastMessage EXCEPT !.content = lastMessage.content \o " " \o newMessage.content,
                                         !.isPartial = newMessage.isPartial])

PartialUpdateMessages(h, newMessage) ==
    IF h.interrupted /\ newMessage.role = "assistant" THEN h
    ELSE [h EXCEPT !.interrupted = FALSE,
                   !.messages = PartialMerge(h.messages, newMessage)]

\* Mutant: textOutput shows its content at once, stop reason or not.
PartialOnTextOutputEager(h, d) ==
    PartialUpdateMessages(h,
        [role |-> d.role, content |-> d.content,
         isPartial |-> (h.stopReasonCache[d.id] = "PARTIAL_TURN")])

PartialOnTextOutput(h, d) ==
    IF Truthy(h.stopReasonCache[d.id])
    THEN PartialUpdateMessages(h,
            [role |-> d.role, content |-> d.content,
             isPartial |-> (h.stopReasonCache[d.id] = "PARTIAL_TURN")])
    ELSE [h EXCEPT !.messageCache[d.id] = [role |-> d.role, content |-> d.content]]

\* Mutant: a stop reason that arrives before the content is not remembered.
PartialOnTextStopUncached(h, d) ==
    IF d.stopReason = "INTERRUPTED" THEN [h EXCEPT !.interrupted = TRUE]
    ELSE IF h.messageCache[d.id] # NoMessage
    THEN PartialUpdateMessages(h,
            [role |-> h.messageCache[d.id].role, content |-> h.messageCache[d.id].content,
             isPartial |-> (d.stopReason = "PARTIAL_TURN")])
    ELSE h

PartialOnTextStop(h, d) ==
    IF d.stopReason = "INTERRUPTED" THEN [h EXCEPT !.interrupted = TRUE]
    ELSE IF h.messageCache[d.id] # NoMessage
    THEN PartialUpdateMessages(h,
            [role |-> h.messageCache[d.id].role, content |-> h.messageCache[d.id].content,
             isPartial |-> (d.stopReason = "PARTIAL_TURN")])
    ELSE [h EXCEPT !.stopReasonCache[d.id] = d.stopReason]

(***************************************************************************)
(* The three revisions side by side.                                       *)
(***************************************************************************)
TextStartData == [id : Ids, role : Roles, generationStage : Stages]

TextOutputData == [id : Ids, role : Roles, content : Contents]

TextStopData == [id : Ids, stopReason : StopReasons]

NoSeen == [start |-> 0, output |-> 0, stop |-> Undefined, final |-> FALSE, text |-> FALSE, role |-> Undefined]

ChatInit ==
    [stage |-> StageHistInit, event |-> EventHistInit, partial |-> PartialHistInit]

ChatClear(c) ==
    [stage |-> StageClear(c.stage), event |-> EventClear(c.event), partial |-> PartialClear(c.partial)]

ChatSetupSystemPrompt(c, prompt) ==
    [stage |-> StageSetupSystemPrompt(c.stage, prompt),
     event |-> EventSetupSystemPrompt(c.event, prompt),
     partial |-> PartialSetupSystemPrompt(c.partial, prompt)]

ChatOnTextStart(c, d) ==
    [stage |-> StageOnTextStart(c.stage, d),
     event |-> EventOnTextStart(c.event, d),
     partial |-> c.partial]

ChatOnTextOutput(c, d) ==
    [stage |-> StageOnTextOutput(c.stage, d),
     event |-> EventOnTextOutput(c.event, d),
     partial |-> PartialOnTextOutput(c.partial, d)]

ChatOnTextStop(c, d) ==
    [stage |-> StageOnTextStop(c.stage, d),
     event |-> EventOnTextStop(c.event, d),
     partial |-> PartialOnTextStop(c.partial, d)]

(***************************************************************************)
(* State.                                                                  *)
(***************************************************************************)
VARIABLES
    stageHist,    \* revision 1 of useChatHistory
    eventHist,    \* revision 2 of useChatHistory
    partialHist,  \* revision 3 of useChatHistory
    seen,         \* per generation id: the text events delivered so far (counts, role,
                  \* FINAL stage seen, non-empty text seen, stop reason)
    bargeIn,      \* an assistant generation (started, with text) was stopped INTERRUPTED, and
                  \* every text event since then belongs to a generation known to be the assistant's
    isActive,         \* useState, index.ts line 65
    isLoading,        \* useState, line 66
    systemPromptRef,  \* line 67
    audioPlayerRef,   \* line 68: TRUE when it holds an AudioPlayer
    channelRef,       \* line 69: 0 for null, else the number of the channel
    audioContextRef,  \* line 70
    audioStreamRef,   \* line 71
    sourceNodeRef,    \* line 72
    processorRef,     \* line 73
    audioInputQueue,  \* line 74: chunks are opaque, the model keeps how many are queued
    sessions,         \* one record per startSession call that passed its guard: where that
                      \* call is (pc), and the isActive its closures captured
    recordings,       \* one pc per startRecording call that passed its guard
    closing,          \* closeSession calls waiting for their audioStop publish
    loops,            \* processAudioInput chains that keep rescheduling themselves
    captures,         \* ScriptProcessor nodes connected and feeding the queue
    outbound,         \* every envelope handed to EventsChannel.publish, in order
    inbound,          \* how many ready / end / audioOutput envelopes were delivered, how many
                      \* audioOutput chunks reached the player, how many other envelopes
                      \* (not btoc, or of an unknown tag) and how many subscription errors
    closeCalls,       \* closeSession calls so far
    connectsSinceClose, \* events.connect calls since the last closeSession call
    closedFromActive, \* the last closeSession call found isActive set and every earlier
                      \* startSession and startRecording call over, and startSession has
                      \* not been called since
    rejected,         \* audioInput publishes that were rejected by the channel
    inputData,        \* codec: one captured sample, in units of 1/SampleGrid
    int16Array,       \* codec: the Int16Array made of it (empty before the conversion)
    float32Array,     \* codec: the Float32Array decoded from that (empty before), in units
                      \* of 1/SampleGrid
    isConnected,          \* useNovaSonic.ts: useState, line 23 (channelRef is set with it)
    recorder,             \* useNovaSonic.ts: "off", "starting" (startRecording awaits) or
                          \* "on" (the worklet posts audioData; isRecording is set)
    audioBufferQueueRef,  \* useNovaSonic.ts line 42: the number of chunks queued
    isProcessingAudioRef, \* useNovaSonic.ts line 43
    publishing,           \* the executions of processAudioQueue awaiting their publish:
                          \* the number of chunks each one took
    timers                \* pending setTimeout(processAudioQueue, 100) calls

chatVars == <<stageHist, eventHist, partialHist, seen, bargeIn>>

codecVars == <<inputData, int16Array, float32Array>>

workletVars == <<isConnected, recorder, audioBufferQueueRef, isProcessingAudioRef, publishing,
                 timers>>

ctrlVars == <<isActive, isLoading, systemPromptRef, audioPlayerRef, channelRef, audioContextRef,
              audioStreamRef, sourceNodeRef, processorRef, audioInputQueue, sessions, recordings,
              closing, loops, captures, outbound, inbound, closeCalls, connectsSinceClose,
              closedFromActive, rejected, codecVars, workletVars>>

vars == <<chatVars, ctrlVars>>

Chat == [stage |-> stageHist, event |-> eventHist, partial |-> partialHist]

SetChat(c) ==
    /\ stageHist' = c.stage
    /\ eventHist' = c.event
    /\ partialHist' = c.partial

\* Generation ids are opaque: a new id is taken in order of first use.
UsableIds == {AllIds[i] : i \in {j \in 1..MaxIds : j = 1 \/ seen[AllIds[j - 1]] # NoSeen}}

\* The model gives every generation id one role.
RoleFits(id, role) == seen[id].role \in {Undefined, role}

NoInbound == [ready |-> 0, end |-> 0, audioOutput |-> 0, played |-> 0, other |-> 0, error |-> 0]

\* The hook after its first render (index.ts lines 54..74).
InitSession ==
    /\ stageHist = StageHistInit
    /\ eventHist = EventHistInit
    /\ partialHist = PartialHistInit
    /\ seen = [i \in Ids |-> NoSeen]
    /\ bargeIn = FALSE
    /\ isActive = FALSE
    /\ isLoading = FALSE
    /\ systemPromptRef = ""
    /\ audioPlayerRef = FALSE
    /\ channelRef = 0
    /\ audioContextRef = FALSE
    /\ audioStreamRef = FALSE
    /\ sourceNodeRef = FALSE
    /\ processorRef = FALSE
    /\ audioInputQueue = 0
    /\ sessions = <<>>
    /\ recordings = <<>>
    /\ closing = 0
    /\ loops = 0
    /\ captures = 0
    /\ outbound = <<>>
    /\ inbound = NoInbound
    /\ closeCalls = 0
    /\ connectsSinceClose = 0
    /\ closedFromActive = FALSE

\* useNovaSonic after its first render (useNovaSonic.ts lines 23..43).
InitWorklet ==
    /\ isConnected = FALSE
    /\ recorder = "off"
    /\ audioBufferQueueRef = 0
    /\ isProcessingAudioRef = FALSE
    /\ publishing = <<>>
    /\ timers = 0

Init ==
    /\ InitSession
    /\ rejected = 0
    /\ inputData = 0
    /\ int16Array = <<>>
    /\ float32Array = <<>>
    /\ InitWorklet

(***************************************************************************)
(* The three text handlers, as the subscription or a test calls them.  The *)
(* model sends textStart and textStop once per generation id and at most   *)
(* MaxOutputs textOutput.                                                   *)
(***************************************************************************)
TextStart(d) ==
    /\ d.id \in UsableIds
    /\ seen[d.id].start = 0
    /\ RoleFits(d.id, d.role)
    /\ SetChat(ChatOnTextStart(Chat, d))
    /\ seen' = [seen EXCEPT ![d.id].start = 1, ![d.id].role = d.role,
                            ![d.id].final = (d.generationStage = "FINAL")]
    /\ bargeIn' = (bargeIn /\ d.role # "user")

TextOutputUpTo(d, max, fragments) ==
    /\ d.id \in UsableIds
    /\ d.content \in fragments
    /\ seen[d.id].output < max
    /\ RoleFits(d.id, d.role)
    /\ SetChat(ChatOnTextOutput(Chat, d))
    /\ seen' = [seen EXCEPT ![d.id].output = @ + 1, ![d.id].role = d.role,
                            ![d.id].text = (@ \/ d.content # "")]
    /\ bargeIn' = (bargeIn /\ d.role # "user")

TextOutput(d) == TextOutputUpTo(d, MaxOutputs, {"", ContentOf(d.id)})

TextStop(d) ==
    /\ d.id \in UsableIds
    /\ seen[d.id].stop = Undefined
    /\ SetChat(ChatOnTextStop(Chat, d))
    /\ seen' = [seen EXCEPT ![d.id].stop = d.stopReason]
    /\ bargeIn' = IF seen[d.id].role = "assistant"
                  THEN bargeIn \/ (d.stopReason = "INTERRUPTED" /\ seen[d.id].start > 0 /\ seen[d.id].text)
                  ELSE FALSE

(***************************************************************************)
(* The hook driven through its own interface (clear, setupSystemPrompt,    *)
(* onTextStart, onTextOutput, onTextStop).                                 *)
(***************************************************************************)
HookClear ==
    /\ SetChat(ChatClear(Chat))
    /\ UNCHANGED <<seen, bargeIn, ctrlVars>>

HookSetupSystemPrompt ==
    \E p \in Prompts \ {""} :
        /\ SetChat(ChatSetupSystemPrompt(Chat, p))
        /\ UNCHANGED <<seen, bargeIn, ctrlVars>>

HookTextStart ==
    \E d \in TextStartData : TextStart(d) /\ UNCHANGED ctrlVars

HookTextOutput ==
    \E d \in TextOutputData : TextOutput(d) /\ UNCHANGED ctrlVars

HookTextStop ==
    \E d \in TextStopData : TextStop(d) /\ UNCHANGED ctrlVars

NextHook ==
    \/ HookClear
    \/ HookSetupSystemPrompt
    \/ HookTextStart
    \/ HookTextOutput
    \/ HookTextStop

SpecHook == Init /\ [][NextHook]_vars

(***************************************************************************)
(* One generation id whose content arrives in several textOutput events,   *)
(* each carrying any of the fragments.                                     *)
(***************************************************************************)
FragmentId == AllIds[1]

FragmentStart ==
    \E d \in TextStartData : d.id = FragmentId /\ TextStart(d) /\ UNCHANGED ctrlVars

FragmentOutput ==
    \E d \in TextOutputData :
        /\ d.id = FragmentId
        /\ TextOutputUpTo(d, MaxFragments, Contents)
        /\ UNCHANGED ctrlVars

FragmentStop ==
    \E d \in TextStopData : d.id = FragmentId /\ TextStop(d) /\ UNCHANGED ctrlVars

NextFragments ==
    \/ HookClear
    \/ HookSetupSystemPrompt
    \/ FragmentStart
    \/ FragmentOutput
    \/ FragmentStop

SpecFragments == Init /\ [][NextFragments]_vars

(***************************************************************************)
(* The session controller, useSpeechToSpeech/index.ts.                     *)
(*                                                                         *)
(* startSession and closeSession are called from the page and read the     *)
(* state of the current render.  The subscription's `next` handler is      *)
(* created inside startSession and keeps the isActive of the render in     *)
(* which startSession was called; refs are always read live.               *)
(* An `await` on the network or on the microphone is a point where other   *)
(* handlers run; a rejected promise ends the async function there.         *)
(***************************************************************************)
Envelope(ch, event, data, chunks) == [channel |-> ch, event |-> event, data |-> data, chunks |-> chunks]

\* dispatchEvent (lines 76..88), up to the call of publish.
DispatchEvent(out, ch, event, data, chunks) ==
    IF ch # 0 THEN Append(out, Envelope(ch, event, data, chunks)) ELSE out

Published(out, event) == Len(SelectSeq(out, LAMBDA e : e.event = event))

Min(a, b) == IF a <= b THEN a ELSE b

\* A tick that empties the queue whatever it holds (no `processedChunks <
\* MAX_AUDIO_CHUNKS_PER_BATCH` in the loop of lines 118..128).
BatchSizeUncapped(queued) ==
    IF queued > MIN_AUDIO_CHUNKS_PER_BATCH THEN queued ELSE 0

\* One tick of processAudioInput (lines 112..131): how many chunks it takes.
BatchSize(queued) ==
    IF queued > MIN_AUDIO_CHUNKS_PER_BATCH THEN Min(queued, MAX_AUDIO_CHUNKS_PER_BATCH) ELSE 0

ProcessAudioInput(queued, out, ch) ==
    IF BatchSize(queued) > 0
    THEN [queue |-> queued - BatchSize(queued),
          outbound |-> DispatchEvent(out, ch, "audioInput", Undefined, BatchSize(queued))]
    ELSE [queue |-> queued, outbound |-> out]

\* The subscription of channel k exists (lines 141..181).
Subscribed(k) == k \in 1..Len(sessions) /\ sessions[k].pc \notin {"connect", "connectError"}

\* The backend of channel k was started by the handshake POST (line 183).
Serving(k) == Subscribed(k) /\ sessions[k].pc # "postError"

\* startSession and startRecording calls that are over (resolved or rejected).
SessionSettled(k) ==
    sessions[k].pc \in {"done", "connectError", "postError", "permissionDenied"}

RecordingSettled(r) == recordings[r] \in {"done", "typeError"}

Settled ==
    /\ \A k \in 1..Len(sessions) : SessionSettled(k)
    /\ \A r \in 1..Len(recordings) : RecordingSettled(r)

SetSession(k, pc) == sessions' = [sessions EXCEPT ![k].pc = pc]

\* startSession up to `await events.connect` (lines 264..275, 137..141).
StartSession ==
    \E p \in Prompts :
        /\ ~(isActive \/ isLoading)
        /\ Len(sessions) + closeCalls < MaxCalls
        /\ SetChat(ChatClear(Chat))
        /\ isLoading' = TRUE
        /\ systemPromptRef' = p
        /\ audioInputQueue' = 0
        /\ sessions' = Append(sessions, [pc |-> "connect", isActive |-> isActive])
        /\ connectsSinceClose' = connectsSinceClose + 1
        /\ closedFromActive' = FALSE
        /\ UNCHANGED <<seen, bargeIn, isActive, audioPlayerRef, channelRef, audioContextRef,
                       audioStreamRef, sourceNodeRef, processorRef, recordings, closing, loops,
                       captures, outbound, inbound, closeCalls,
                       rejected, codecVars, workletVars>>

\* events.connect resolved: lines 142..183 up to `await api.post`.
ConnectResolved ==
    \E k \in 1..Len(sessions) :
        /\ sessions[k].pc = "connect"
        /\ channelRef' = k
        /\ SetSession(k, "post")
        /\ UNCHANGED <<chatVars, isActive, isLoading, systemPromptRef, audioPlayerRef,
                       audioContextRef, audioStreamRef, sourceNodeRef, processorRef,
                       audioInputQueue, recordings, closing, loops, captures, outbound, inbound,
                       closeCalls, connectsSinceClose, closedFromActive,
                       rejected, codecVars, workletVars>>

\* events.connect rejected: startSession rejects at line 275.
ConnectRejected ==
    \E k \in 1..Len(sessions) :
        /\ sessions[k].pc = "connect"
        /\ SetSession(k, "connectError")
        /\ UNCHANGED <<chatVars, isActive, isLoading, systemPromptRef, audioPlayerRef, channelRef,
                       audioContextRef, audioStreamRef, sourceNodeRef, processorRef,
                       audioInputQueue, recordings, closing, loops, captures, outbound, inbound,
                       closeCalls, connectsSinceClose, closedFromActive,
                       rejected, codecVars, workletVars>>

\* api.post resolved: initAudio starts and waits for getUserMedia (lines 276, 91).
PostResolved ==
    \E k \in 1..Len(sessions) :
        /\ sessions[k].pc = "post"
        /\ SetSession(k, "getUserMedia")
        /\ UNCHANGED <<chatVars, isActive, isLoading, systemPromptRef, audioPlayerRef, channelRef,
                       audioContextRef, audioStreamRef, sourceNodeRef, processorRef,
                       audioInputQueue, recordings, closing, loops, captures, outbound, inbound,
                       closeCalls, connectsSinceClose, closedFromActive,
                       rejected, codecVars, workletVars>>

\* api.post rejected: startSession rejects at line 275.
PostRejected ==
    \E k \in 1..Len(sessions) :
        /\ sessions[k].pc = "post"
        /\ SetSession(k, "postError")
        /\ UNCHANGED <<chatVars, isActive, isLoading, systemPromptRef, audioPlayerRef, channelRef,
                       audioContextRef, audioStreamRef, sourceNodeRef, processorRef,
                       audioInputQueue, recordings, closing, loops, captures, outbound, inbound,
                       closeCalls, connectsSinceClose, closedFromActive,
                       rejected, codecVars, workletVars>>

\* getUserMedia resolved: lines 99..107 up to `await audioPlayer.start()`.
GetUserMediaResolved ==
    \E k \in 1..Len(sessions) :
        /\ sessions[k].pc = "getUserMedia"
        /\ audioStreamRef' = TRUE
        /\ audioContextRef' = TRUE
        /\ SetSession(k, "audioPlayerStart")
        /\ UNCHANGED <<chatVars, isActive, isLoading, systemPromptRef, audioPlayerRef, channelRef,
                       sourceNodeRef, processorRef, audioInputQueue, recordings, closing, loops,
                       captures, outbound, inbound, closeCalls, connectsSinceClose,
                       closedFromActive,
                       rejected, codecVars, workletVars>>

\* getUserMedia rejected (microphone refused): startSession rejects at line 276.
GetUserMediaRejected ==
    \E k \in 1..Len(sessions) :
        /\ sessions[k].pc = "getUserMedia"
        /\ SetSession(k, "permissionDenied")
        /\ UNCHANGED <<chatVars, isActive, isLoading, systemPromptRef, audioPlayerRef, channelRef,
                       audioContextRef, audioStreamRef, sourceNodeRef, processorRef,
                       audioInputQueue, recordings, closing, loops, captures, outbound, inbound,
                       closeCalls, connectsSinceClose, closedFromActive,
                       rejected, codecVars, workletVars>>

\* audioPlayer.start() resolved: line 109, startSession is done.
AudioPlayerStarted ==
    \E k \in 1..Len(sessions) :
        /\ sessions[k].pc = "audioPlayerStart"
        /\ audioPlayerRef' = TRUE
        /\ SetSession(k, "done")
        /\ UNCHANGED <<chatVars, isActive, isLoading, systemPromptRef, channelRef,
                       audioContextRef, audioStreamRef, sourceNodeRef, processorRef,
                       audioInputQueue, recordings, closing, loops, captures, outbound, inbound,
                       closeCalls, connectsSinceClose, closedFromActive,
                       rejected, codecVars, workletVars>>

\* The guard of startRecording (lines 187..193).
CanRecord == audioContextRef /\ audioStreamRef /\ Truthy(systemPromptRef)

\* The envelopes a subscription can deliver: the backend's (btoc), and the
\* client's own publishes, which the channel hands back to its subscribers.
Directions == {"btoc", "ctob"}

InboundTags == {"ready", "end", "audioOutput", "textStart", "textOutput", "textStop"}

OutboundTags == {"promptStart", "systemPrompt", "audioStart", "audioInput", "audioStop"}

EventTags == InboundTags \cup OutboundTags \cup {"usage"}

\* A handler that dispatches on the tag alone (no test of event.direction at
\* line 148).
BranchAnyDirection(direction, event) ==
    IF event \in InboundTags THEN event ELSE "none"

\* The branch of the `next` handler an envelope takes (lines 147..175).
Branch(direction, event) ==
    IF direction = "btoc" /\ event \in InboundTags THEN event ELSE "none"

\* The `ready` branch (lines 149..152): startRecording up to its first await.
\* When the guard fails startRecording resolves at once and isLoading is reset.
OnReady ==
    IF CanRecord
    THEN /\ outbound' = DispatchEvent(outbound, channelRef, "promptStart", Undefined, 0)
         /\ recordings' = Append(recordings, "systemPrompt")
         /\ UNCHANGED isLoading
    ELSE /\ isLoading' = FALSE
         /\ UNCHANGED <<outbound, recordings>>

\* Inbound `ready`, while fewer than `max` were delivered.
DeliverReadyUpTo(max) ==
    \E k \in 1..Len(sessions) :
        /\ Serving(k)
        /\ inbound.ready < max
        /\ Branch("btoc", "ready") = "ready"
        /\ inbound' = [inbound EXCEPT !.ready = @ + 1]
        /\ OnReady
        /\ UNCHANGED <<chatVars, isActive, systemPromptRef, audioPlayerRef, channelRef,
                       audioContextRef, audioStreamRef, sourceNodeRef, processorRef,
                       audioInputQueue, sessions, closing, loops, captures, closeCalls,
                       connectsSinceClose, closedFromActive,
                       rejected, codecVars, workletVars>>

DeliverReady == DeliverReadyUpTo(MaxReady)

\* startRecording after `await dispatchEvent('promptStart')` (line 196).
RecordingSystemPrompt ==
    \E r \in 1..Len(recordings) :
        /\ recordings[r] = "systemPrompt"
        /\ outbound' = DispatchEvent(outbound, channelRef, "systemPrompt", systemPromptRef, 0)
        /\ recordings' = [recordings EXCEPT ![r] = "audioStart"]
        /\ UNCHANGED <<chatVars, isActive, isLoading, systemPromptRef, audioPlayerRef, channelRef,
                       audioContextRef, audioStreamRef, sourceNodeRef, processorRef,
                       audioInputQueue, sessions, closing, loops, captures, inbound, closeCalls,
                       connectsSinceClose, closedFromActive,
                       rejected, codecVars, workletVars>>

\* startRecording after `await dispatchEvent('systemPrompt', ...)` (line 197).
RecordingAudioStart ==
    \E r \in 1..Len(recordings) :
        /\ recordings[r] = "audioStart"
        /\ outbound' = DispatchEvent(outbound, channelRef, "audioStart", Undefined, 0)
        /\ recordings' = [recordings EXCEPT ![r] = "capture"]
        /\ UNCHANGED <<chatVars, isActive, isLoading, systemPromptRef, audioPlayerRef, channelRef,
                       audioContextRef, audioStreamRef, sourceNodeRef, processorRef,
                       audioInputQueue, sessions, closing, loops, captures, inbound, closeCalls,
                       connectsSinceClose, closedFromActive,
                       rejected, codecVars, workletVars>>

\* startRecording after `await dispatchEvent('audioStart')` (lines 199..228), the
\* first tick of processAudioInput, and the `.then` of line 150.  With the audio
\* context gone, `audioContextRef.current.createMediaStreamSource` throws after
\* setupSystemPrompt: startRecording rejects and the `.then` is skipped.
RecordingCapture ==
    \E r \in 1..Len(recordings) :
        /\ recordings[r] = "capture"
        /\ SetChat(ChatSetupSystemPrompt(Chat, systemPromptRef))
        /\ IF audioContextRef
           THEN LET tick == ProcessAudioInput(audioInputQueue, outbound, channelRef)
                IN  /\ recordings' = [recordings EXCEPT ![r] = "done"]
                    /\ sourceNodeRef' = TRUE
                    /\ processorRef' = TRUE
                    /\ captures' = captures + 1
                    /\ isActive' = TRUE
                    /\ loops' = loops + 1
                    /\ audioInputQueue' = tick.queue
                    /\ outbound' = tick.outbound
                    /\ isLoading' = FALSE
           ELSE /\ recordings' = [recordings EXCEPT ![r] = "typeError"]
                /\ UNCHANGED <<sourceNodeRef, processorRef, captures, isActive, loops,
                               audioInputQueue, outbound, isLoading>>
        /\ UNCHANGED <<seen, bargeIn, systemPromptRef, audioPlayerRef, channelRef, audioContextRef,
                       audioStreamRef, sessions, closing, inbound, closeCalls, connectsSinceClose,
                       closedFromActive,
                       rejected, codecVars, workletVars>>

\* processor.onaudioprocess (lines 212..217), while fewer than `max` chunks are queued.
OnAudioProcessUpTo(max) ==
    /\ captures > 0
    /\ audioInputQueue < max
    /\ audioInputQueue' = audioInputQueue + 1
    /\ UNCHANGED <<chatVars, isActive, isLoading, systemPromptRef, audioPlayerRef, channelRef,
                   audioContextRef, audioStreamRef, sourceNodeRef, processorRef, sessions,
                   recordings, closing, loops, captures, outbound, inbound, closeCalls,
                   connectsSinceClose, closedFromActive,
                   rejected, codecVars, workletVars>>

OnAudioProcess == OnAudioProcessUpTo(MaxQueue)

\* A tick of processAudioInput scheduled by setTimeout (lines 112..134) whose
\* publish, if any, resolves; the model stops after `max` audioInput envelopes.
ProcessAudioInputTickUpTo(max) ==
    /\ loops > 0
    /\ Published(outbound, "audioInput") < max
    /\ LET tick == ProcessAudioInput(audioInputQueue, outbound, channelRef)
       IN  /\ audioInputQueue' = tick.queue
           /\ outbound' = tick.outbound
    /\ UNCHANGED <<chatVars, isActive, isLoading, systemPromptRef, audioPlayerRef, channelRef,
                   audioContextRef, audioStreamRef, sourceNodeRef, processorRef, sessions,
                   recordings, closing, loops, captures, inbound, closeCalls, connectsSinceClose,
                   closedFromActive,
                   rejected, codecVars, workletVars>>

ProcessAudioInputTick == ProcessAudioInputTickUpTo(MaxBatches)

\* A tick of processAudioInput whose publish is rejected (lines 113..130, 81..87):
\* the chunks were shifted out of the queue, `await dispatchEvent` throws, the
\* promise of processAudioInput rejects and the setTimeout of line 132 is not
\* reached.
ProcessAudioInputRejected ==
    /\ loops > 0
    /\ channelRef # 0
    /\ BatchSize(audioInputQueue) > 0
    /\ audioInputQueue' = audioInputQueue - BatchSize(audioInputQueue)
    /\ loops' = loops - 1
    /\ rejected' = rejected + 1
    /\ UNCHANGED <<chatVars, isActive, isLoading, systemPromptRef, audioPlayerRef, channelRef,
                   audioContextRef, audioStreamRef, sourceNodeRef, processorRef, sessions,
                   recordings, closing, captures, outbound, inbound, closeCalls,
                   connectsSinceClose, closedFromActive, codecVars, workletVars>>

\* stopRecording up to `await dispatchEvent('audioStop')` (lines 231..261): the
\* refs and the envelope it leaves.
StopRecording ==
    /\ isActive' = FALSE
    /\ captures' = IF processorRef THEN captures - 1 ELSE captures
    /\ processorRef' = FALSE
    /\ sourceNodeRef' = FALSE
    /\ audioPlayerRef' = FALSE
    /\ audioStreamRef' = FALSE
    /\ audioContextRef' = FALSE
    /\ outbound' = DispatchEvent(outbound, channelRef, "audioStop", Undefined, 0)

\* closeSession up to the await inside stopRecording (lines 279..280).  Without
\* a channel nothing is awaited and lines 282..283 follow at once.
CloseSession ==
    /\ Len(sessions) + closeCalls < MaxCalls
    /\ closeCalls' = closeCalls + 1
    /\ StopRecording
    /\ IF channelRef # 0
       THEN closing' = closing + 1 /\ UNCHANGED isLoading
       ELSE isLoading' = FALSE /\ UNCHANGED closing
    /\ connectsSinceClose' = 0
    /\ closedFromActive' = (isActive /\ Settled)
    /\ UNCHANGED <<chatVars, systemPromptRef, channelRef, audioInputQueue, sessions, recordings,
                   loops, inbound,
                   rejected, codecVars, workletVars>>

\* closeSession after `await stopRecording()` (lines 282..283).
CloseSessionResumed ==
    /\ closing > 0
    /\ closing' = closing - 1
    /\ isActive' = FALSE
    /\ isLoading' = FALSE
    /\ UNCHANGED <<chatVars, systemPromptRef, audioPlayerRef, channelRef, audioContextRef,
                   audioStreamRef, sourceNodeRef, processorRef, audioInputQueue, sessions,
                   recordings, loops, captures, outbound, inbound, closeCalls, connectsSinceClose,
                   closedFromActive,
                   rejected, codecVars, workletVars>>

\* Text events delivered to the reconciler so far.
TextDelivered ==
    LET n[i \in 0..MaxIds] ==
            IF i = 0 THEN 0
            ELSE n[i - 1] + seen[AllIds[i]].start + seen[AllIds[i]].output
                          + (IF seen[AllIds[i]].stop = Undefined THEN 0 ELSE 1)
    IN  n[MaxIds]

\* Inbound envelopes other than `ready` delivered so far.
Delivered == inbound.end + inbound.audioOutput + inbound.other + inbound.error + TextDelivered

\* The `end` branch (lines 153..156) of the handler of channel k: closeSession,
\* if the handler's isActive is set.
OnEnd(k) ==
    IF sessions[k].isActive
    THEN /\ closeCalls' = closeCalls + 1
         /\ StopRecording
         /\ closing' = closing + 1
         /\ connectsSinceClose' = 0
         /\ closedFromActive' = (isActive /\ Settled)
    ELSE UNCHANGED <<isActive, captures, processorRef, sourceNodeRef, audioPlayerRef,
                     audioStreamRef, audioContextRef, outbound, closeCalls, closing,
                     connectsSinceClose, closedFromActive>>

\* Inbound `end`.
DeliverEnd ==
    \E k \in 1..Len(sessions) :
        /\ Serving(k)
        /\ Delivered < MaxInbound
        /\ Branch("btoc", "end") = "end"
        /\ inbound' = [inbound EXCEPT !.end = @ + 1]
        /\ OnEnd(k)
        /\ UNCHANGED <<chatVars, isLoading, systemPromptRef, channelRef, audioInputQueue, sessions,
                       recordings, loops,
                       rejected, codecVars, workletVars>>

\* Inbound `audioOutput` (lines 157..167) with one chunk.
DeliverAudioOutput ==
    \E k \in 1..Len(sessions) :
        /\ Serving(k)
        /\ Delivered < MaxInbound
        /\ Branch("btoc", "audioOutput") = "audioOutput"
        /\ inbound' = [inbound EXCEPT !.audioOutput = @ + 1,
                                      !.played = IF audioPlayerRef THEN @ + 1 ELSE @]
        /\ UNCHANGED <<chatVars, isActive, isLoading, systemPromptRef, audioPlayerRef, channelRef,
                       audioContextRef, audioStreamRef, sourceNodeRef, processorRef,
                       audioInputQueue, sessions, recordings, closing, loops, captures, outbound,
                       closeCalls, connectsSinceClose, closedFromActive,
                       rejected, codecVars, workletVars>>

\* Inbound textStart / textOutput / textStop (lines 168..174).
DeliverTextStart ==
    /\ \E k \in 1..Len(sessions) : Serving(k)
    /\ Delivered < MaxInbound
    /\ Branch("btoc", "textStart") = "textStart"
    /\ \E d \in TextStartData : TextStart(d)
    /\ UNCHANGED ctrlVars

DeliverTextOutput ==
    /\ \E k \in 1..Len(sessions) : Serving(k)
    /\ Delivered < MaxInbound
    /\ Branch("btoc", "textOutput") = "textOutput"
    /\ \E d \in TextOutputData : TextOutput(d)
    /\ UNCHANGED ctrlVars

DeliverTextStop ==
    /\ \E k \in 1..Len(sessions) : Serving(k)
    /\ Delivered < MaxInbound
    /\ Branch("btoc", "textStop") = "textStop"
    /\ \E d \in TextStopData : TextStop(d)
    /\ UNCHANGED ctrlVars

\* The controller variables a text event or an ignored envelope leaves alone.
ctrlButInbound == <<isActive, isLoading, systemPromptRef, audioPlayerRef, channelRef,
                    audioContextRef, audioStreamRef, sourceNodeRef, processorRef,
                    audioInputQueue, sessions, recordings, closing, loops, captures, outbound,
                    closeCalls, connectsSinceClose, closedFromActive, rejected, codecVars, workletVars>>

\* Any other envelope on a subscribed channel (one that is not btoc, or whose
\* tag is not an inbound one), handled by the same `next` handler (lines 146..176).
DeliverOther ==
    \E k \in 1..Len(sessions), direction \in Directions, event \in EventTags :
        /\ Subscribed(k)
        /\ Delivered < MaxInbound
        /\ ~(direction = "btoc" /\ event \in InboundTags)
        /\ LET branch == Branch(direction, event)
           IN  /\ inbound' = [inbound EXCEPT
                                 !.other = @ + 1,
                                 !.played = IF branch = "audioOutput" /\ audioPlayerRef
                                            THEN @ + 1 ELSE @]
               /\ CASE branch = "ready" ->
                         /\ OnReady
                         /\ UNCHANGED <<chatVars, isActive, systemPromptRef, audioPlayerRef,
                                        channelRef, audioContextRef, audioStreamRef,
                                        sourceNodeRef, processorRef, audioInputQueue, sessions,
                                        closing, loops, captures, closeCalls,
                                        connectsSinceClose, closedFromActive, rejected,
                                        codecVars, workletVars>>
                    [] branch = "end" ->
                         /\ OnEnd(k)
                         /\ UNCHANGED <<chatVars, isLoading, systemPromptRef, channelRef,
                                        audioInputQueue, sessions, recordings, loops, rejected,
                                        codecVars, workletVars>>
                    [] branch = "textStart" ->
                         (\E d \in TextStartData : TextStart(d)) /\ UNCHANGED ctrlButInbound
                    [] branch = "textOutput" ->
                         (\E d \in TextOutputData : TextOutput(d)) /\ UNCHANGED ctrlButInbound
                    [] branch = "textStop" ->
                         (\E d \in TextStopData : TextStop(d)) /\ UNCHANGED ctrlButInbound
                    [] OTHER -> UNCHANGED <<chatVars, ctrlButInbound>>

\* The subscription's error callback (lines 177..180): console.error, nothing else.
SubscriptionError ==
    \E k \in 1..Len(sessions) :
        /\ Subscribed(k)
        /\ Delivered < MaxInbound
        /\ inbound' = [inbound EXCEPT !.error = @ + 1]
        /\ UNCHANGED <<chatVars, ctrlButInbound>>

Next ==
    \/ StartSession
    \/ ConnectResolved
    \/ ConnectRejected
    \/ PostResolved
    \/ PostRejected
    \/ GetUserMediaResolved
    \/ GetUserMediaRejected
    \/ AudioPlayerStarted
    \/ DeliverReady
    \/ RecordingSystemPrompt
    \/ RecordingAudioStart
    \/ RecordingCapture
    \/ OnAudioProcess
    \/ ProcessAudioInputTick
    \/ CloseSession
    \/ CloseSessionResumed
    \/ DeliverEnd
    \/ DeliverAudioOutput
    \/ DeliverTextStart
    \/ DeliverTextOutput
    \/ DeliverTextStop
    \/ DeliverOther
    \/ SubscriptionError

Spec == Init /\ [][Next]_vars

(***************************************************************************)
(* The codec alone.  A sample is a rational n/SampleGrid, kept as n; with a *)
(* grid of 2^16 every sample is a float32 value and the products below are  *)
(* exact in the float64 arithmetic of the code.                             *)
(***************************************************************************)
SampleGrid == 2 * INT16_RANGE

Samples == (0 - SampleGrid - MaxOver)..(SampleGrid + MaxOver)

Abs(n) == IF n >= 0 THEN n ELSE 0 - n

\* Math.max(-1, Math.min(1, x)), on numerators.
Clamp(n) == IF n > SampleGrid THEN SampleGrid ELSE IF n < 0 - SampleGrid THEN 0 - SampleGrid ELSE n

\* Storing the number a/b into an Int16Array element: the fraction is dropped
\* (towards zero) and the integer is taken modulo 2^16 into -32768..32767.
ToInt16(a, b) ==
    LET t == IF a >= 0 THEN a \div b ELSE (a + b - 1) \div b
    IN  ((t + INT16_RANGE) % (2 * INT16_RANGE)) - INT16_RANGE

\* float32ArrayToInt16Array (index.ts lines 25..31), for one sample.
Float32ArrayToInt16Array(n) == ToInt16(Clamp(n) * INT16_MAX, SampleGrid)

\* convertFloat32ToInt16 (useNovaSonic.ts lines 12..20), for one sample.
ConvertFloat32ToInt16(n) ==
    IF Clamp(n) < 0 THEN ToInt16(Clamp(n) * INT16_RANGE, SampleGrid)
    ELSE ToInt16(Clamp(n) * INT16_MAX, SampleGrid)

\* The two bytes of an Int16Array element in its buffer (little-endian two's
\* complement), which arrayBufferToBase64 (lines 16..23) writes as base64 text and
\* atob (lines 35..39) reads back.
Int16Bytes(v) ==
    LET u == (v + 2 * INT16_RANGE) % (2 * INT16_RANGE)
    IN  <<u % 256, u \div 256>>

BytesInt16(b) ==
    LET u == b[1] + 256 * b[2]
    IN  IF u >= INT16_RANGE THEN u - 2 * INT16_RANGE ELSE u

\* base64ToFloat32Array (lines 33..52), for one sample: int16 / 32768.0, as a
\* numerator over SampleGrid.
Base64ToFloat32Array(b) == (BytesInt16(b) * SampleGrid) \div INT16_RANGE

\* Everything but the codec's variables.
sessionVars == <<chatVars, isActive, isLoading, systemPromptRef, audioPlayerRef, channelRef,
                 audioContextRef, audioStreamRef, sourceNodeRef, processorRef, audioInputQueue,
                 sessions, recordings, closing, loops, captures, outbound, inbound, closeCalls,
                 connectsSinceClose, closedFromActive, rejected>>

InitCodec ==
    /\ InitSession
    /\ rejected = 0
    /\ inputData \in Samples
    /\ int16Array = <<>>
    /\ float32Array = <<>>
    /\ InitWorklet

\* onaudioprocess converts the captured sample (index.ts line 214).
EncodeCapture ==
    /\ int16Array = <<>>
    /\ int16Array' = <<Float32ArrayToInt16Array(inputData)>>
    /\ UNCHANGED <<sessionVars, workletVars, inputData, float32Array>>

\* The worklet hook converts the captured sample (useNovaSonic.ts line 114).
EncodeWorklet ==
    /\ int16Array = <<>>
    /\ int16Array' = <<ConvertFloat32ToInt16(inputData)>>
    /\ UNCHANGED <<sessionVars, workletVars, inputData, float32Array>>

\* The stored integer travels as base64 text and is decoded for the player
\* (index.ts line 163).
DecodePlayback ==
    /\ int16Array # <<>>
    /\ float32Array = <<>>
    /\ float32Array' = <<Base64ToFloat32Array(Int16Bytes(int16Array[1]))>>
    /\ UNCHANGED <<sessionVars, workletVars, inputData, int16Array>>

NextCodec ==
    \/ EncodeCapture
    \/ EncodeWorklet
    \/ DecodePlayback

SpecCodec == InitCodec /\ [][NextCodec]_vars

(***************************************************************************)
(* The audio path alone: one start-up after another, capture, the batching *)
(* loop with publishes that resolve or are rejected, and closeSession.     *)
(* The queue grows past the high-water mark here.                          *)
(***************************************************************************)
NextAudio ==
    \/ StartSession
    \/ ConnectResolved
    \/ PostResolved
    \/ GetUserMediaResolved
    \/ AudioPlayerStarted
    \/ DeliverReady
    \/ RecordingSystemPrompt
    \/ RecordingAudioStart
    \/ RecordingCapture
    \/ OnAudioProcessUpTo(MaxLongQueue)
    \/ ProcessAudioInputTickUpTo(MaxLongBatches)
    \/ ProcessAudioInputRejected
    \/ CloseSession
    \/ CloseSessionResumed

SpecAudio == Init /\ [][NextAudio]_vars

(***************************************************************************)
(* The audio path with publishes that all resolve, scheduled fairly: a     *)
(* setTimeout tick that is due runs (line 133), and closeSession continues *)
(* after its await (lines 280..283).  What the user and the network do is  *)
(* not forced.                                                             *)
(***************************************************************************)
NextDrain ==
    \/ StartSession
    \/ ConnectResolved
    \/ PostResolved
    \/ GetUserMediaResolved
    \/ AudioPlayerStarted
    \/ DeliverReady
    \/ RecordingSystemPrompt
    \/ RecordingAudioStart
    \/ RecordingCapture
    \/ OnAudioProcess
    \/ ProcessAudioInputTick
    \/ CloseSession
    \/ CloseSessionResumed

(***************************************************************************)
(* Start-up and close alone, with more than one `ready`: a duplicate in    *)
(* one session, or one in each of two sessions.                            *)
(***************************************************************************)
NextLoops ==
    \/ StartSession
    \/ ConnectResolved
    \/ PostResolved
    \/ GetUserMediaResolved
    \/ AudioPlayerStarted
    \/ DeliverReadyUpTo(MaxLongReady)
    \/ RecordingSystemPrompt
    \/ RecordingAudioStart
    \/ RecordingCapture
    \/ CloseSession
    \/ CloseSessionResumed

SpecLoops == Init /\ [][NextLoops]_vars

SpecDrain ==
    /\ Init
    /\ [][NextDrain]_vars
    /\ WF_vars(ProcessAudioInputTick)
    /\ WF_vars(CloseSessionResumed)

(***************************************************************************)
(* The worklet hook (useNovaSonic.ts) while it is connected: its queue of  *)
(* captured chunks and its send loop.  A publish stays in flight until it  *)
(* resolves or is rejected.                                                *)
(***************************************************************************)
isRecording == recorder = "on"

\* processAudioQueue up to `await channelRef.current.publish` (lines 71..123).
ProcessAudioQueue(queued, processing, inFlight, connected) ==
    IF processing \/ queued = 0 \/ ~connected
    THEN [queue |-> queued, processing |-> processing, publishing |-> inFlight]
    ELSE [queue |-> queued - Min(queued, MAX_CHUNKS_PER_BATCH),
          processing |-> TRUE,
          publishing |-> Append(inFlight, Min(queued, MAX_CHUNKS_PER_BATCH))]

\* A call of processAudioQueue from a handler; the model follows at most
\* MaxPublishing executions in flight.
CallProcessAudioQueue(queued) ==
    LET run == ProcessAudioQueue(queued, isProcessingAudioRef, publishing, isConnected)
    IN  /\ Len(run.publishing) <= MaxPublishing
        /\ audioBufferQueueRef' = run.queue
        /\ isProcessingAudioRef' = run.processing
        /\ publishing' = run.publishing

WorkletHookUnchanged == UNCHANGED <<sessionVars, codecVars>>

\* connectToAppSync resolves (lines 208..213).
WorkletConnected ==
    /\ ~isConnected
    /\ isConnected' = TRUE
    /\ UNCHANGED <<recorder, audioBufferQueueRef, isProcessingAudioRef, publishing, timers>>
    /\ WorkletHookUnchanged

\* The length of the queue after queueAudioData pushed a chunk (lines 56..63).
Enqueued(queued) == (IF queued >= MAX_QUEUE_SIZE THEN queued - 1 ELSE queued) + 1

\* The worklet posts audioData: port.onmessage calls queueAudioData (lines 412..417, 53..68).
QueueAudioData ==
    /\ isRecording
    /\ CallProcessAudioQueue(Enqueued(audioBufferQueueRef))
    /\ UNCHANGED <<isConnected, recorder, timers>>
    /\ WorkletHookUnchanged

Remove(q, i) == SubSeq(q, 1, i - 1) \o SubSeq(q, i + 1, Len(q))

\* The `finally` of processAudioQueue (lines 144..151).
Finally(queued) ==
    /\ isProcessingAudioRef' = FALSE
    /\ IF queued > 0 /\ isConnected
       THEN timers < MaxTimers /\ timers' = timers + 1
       ELSE UNCHANGED timers

\* A publish resolves (lines 123..132, then the finally).
PublishResolved ==
    \E i \in 1..Len(publishing) :
        /\ publishing' = Remove(publishing, i)
        /\ UNCHANGED audioBufferQueueRef
        /\ Finally(audioBufferQueueRef)
        /\ UNCHANGED <<isConnected, recorder>>
        /\ WorkletHookUnchanged

\* A publish is rejected: the chunks go back to the front of the queue (lines
\* 133..140), then the finally.
PublishRejected ==
    \E i \in 1..Len(publishing) :
        /\ publishing' = Remove(publishing, i)
        /\ audioBufferQueueRef' = audioBufferQueueRef + publishing[i]
        /\ Finally(audioBufferQueueRef + publishing[i])
        /\ UNCHANGED <<isConnected, recorder>>
        /\ WorkletHookUnchanged

\* The 100 ms timer of line 149 fires.
TimerFires ==
    /\ timers > 0
    /\ timers' = timers - 1
    /\ CallProcessAudioQueue(audioBufferQueueRef)
    /\ UNCHANGED <<isConnected, recorder>>
    /\ WorkletHookUnchanged

\* startRecording up to its first await (lines 337..351).
WorkletStartRecording ==
    /\ ~isRecording
    /\ audioBufferQueueRef' = 0
    /\ isProcessingAudioRef' = FALSE
    /\ recorder' = "starting"
    /\ UNCHANGED <<isConnected, publishing, timers>>
    /\ WorkletHookUnchanged

\* startRecording after getUserMedia resolved (lines 360..432).
WorkletRecordingStarted ==
    /\ recorder = "starting"
    /\ recorder' = "on"
    /\ UNCHANGED <<isConnected, audioBufferQueueRef, isProcessingAudioRef, publishing, timers>>
    /\ WorkletHookUnchanged

\* getUserMedia is rejected (lines 434..437).
WorkletRecordingFailed ==
    /\ recorder = "starting"
    /\ recorder' = "off"
    /\ UNCHANGED <<isConnected, audioBufferQueueRef, isProcessingAudioRef, publishing, timers>>
    /\ WorkletHookUnchanged

\* stopRecording (lines 441..511): processAudioQueue for what is queued, then
\* the worklet is stopped and disconnected.
WorkletStopRecording ==
    /\ isRecording
    /\ CallProcessAudioQueue(audioBufferQueueRef)
    /\ recorder' = "off"
    /\ UNCHANGED <<isConnected, timers>>
    /\ WorkletHookUnchanged

\* startNewSession (lines 514..540).
StartNewSession ==
    /\ isConnected
    /\ audioBufferQueueRef' = 0
    /\ isProcessingAudioRef' = FALSE
    /\ UNCHANGED <<isConnected, recorder, publishing, timers>>
    /\ WorkletHookUnchanged

NextWorklet ==
    \/ WorkletConnected
    \/ QueueAudioData
    \/ PublishResolved
    \/ PublishRejected
    \/ TimerFires
    \/ WorkletStartRecording
    \/ WorkletRecordingStarted
    \/ WorkletRecordingFailed
    \/ WorkletStopRecording
    \/ StartNewSession

SpecWorklet == Init /\ [][NextWorklet]_vars

(***************************************************************************)
(* Observations used by the claims.                                        *)
(***************************************************************************)
\* The generation id whose text event this step delivers.
Delivers(id) == seen'[id] # seen[id]

\* The transcript each revision shows.
StageShown(h) == h.messages

EventShown(h) == EventMessages(h)

PartialShown(h) == [i \in 1..Len(h.messages) |-> [role |-> h.messages[i].role, content |-> h.messages[i].content]]

\* A revision's merge updater ran in this step (an entry was promoted).
StagePromotes == ~stageHist.fault /\ (stageHist'.messages # stageHist.messages \/ stageHist'.fault)

EventPromotes == ~eventHist.fault /\ (eventHist'.eventMessages # eventHist.eventMessages \/ eventHist'.fault)

PartialPromotes == partialHist'.messages # partialHist.messages

\* The generation ids that sit in eventMessages.
EventIdsPromoted(h) ==
    {id \in Ids : \E g \in 1..Len(h.eventMessages) :
        \E k \in 1..Len(h.eventMessages[g]) : h.eventMessages[g][k].id = id}

Last(q) == q[Len(q)]

(***************************************************************************)
(* C1                                                                      *)
(***************************************************************************)
TextKinds == {"textStart", "textOutput", "textStop"}

Orders == {o \in [1..3 -> TextKinds] : \A i, j \in 1..3 : i # j => o[i] # o[j]}

Deliver(c, kind, g) ==
    CASE kind = "textStart" -> ChatOnTextStart(c, [id |-> g.id, role |-> g.role, generationStage |-> g.generationStage])
      [] kind = "textOutput" -> ChatOnTextOutput(c, [id |-> g.id, role |-> g.role, content |-> g.content])
      [] OTHER -> ChatOnTextStop(c, [id |-> g.id, stopReason |-> g.stopReason])

RunOrder(c, o, g) == Deliver(Deliver(Deliver(c, o[1], g), o[2], g), o[3], g)

\* What the claim compares: the entry as cached and promoted, and the Message lists.
Outcome(c) ==
    [stage |-> c.stage,
     event |-> c.event,
     eventShown |-> DeriveMessages(c.event.eventMessages, <<>>, FALSE),
     partialShown |-> c.partial.messages,
     partialInterrupted |-> c.partial.interrupted]

Generations(id) ==
    [id : {id}, role : Roles, generationStage : Stages, content : {"", ContentOf(id)}, stopReason : StopReasons]

\* C1: from every reachable reconciler state and for every generation id that
\* has received no event yet, delivering onTextStart, onTextOutput and
\* onTextStop once each gives the same entry and the same Message lists in
\* all 6 orders.
C1_OrderIndependence ==
    \A id \in Ids : seen[id] = NoSeen =>
        \A g \in Generations(id) : \A o1, o2 \in Orders :
            Outcome(RunOrder(Chat, o1, g)) = Outcome(RunOrder(Chat, o2, g))

\* A generation that got its three events (stop first) is resolved and shown,
\* while another id is still untouched.
C1_Witness ==
    /\ \E g \in 1..Len(eventHist.eventMessages) :
           \E k \in 1..Len(eventHist.eventMessages[g]) : eventHist.eventMessages[g][k].id = "g1"
    /\ Len(stageHist.messages) = 2
    /\ Len(partialHist.messages) = 2
    /\ seen["g1"].start = 1 /\ seen["g1"].output = 1 /\ seen["g1"].stop # Undefined
    /\ seen["g2"] = NoSeen

(***************************************************************************)
(* C2                                                                      *)
(***************************************************************************)
\* C2: after an assistant generation was stopped with INTERRUPTED and until a
\* user-role text event arrives (bargeIn), no text event adds anything to the
\* transcript: the interrupted entry contributes nothing and later assistant
\* entries are dropped.
C2_InterruptionSuppression ==
    [][(bargeIn /\ bargeIn' /\ \E id \in Ids : Delivers(id)) =>
          /\ StageShown(stageHist') = StageShown(stageHist)
          /\ EventShown(eventHist') = EventShown(eventHist)
          /\ PartialShown(partialHist') = PartialShown(partialHist)]_vars

(***************************************************************************)
(* C3                                                                      *)
(***************************************************************************)
\* C3 (second sentence, on the revision that derives messages from the
\* eventMessages groups): when an entry resolves whose role differs from the
\* role of the last Message, and no generation of the entry's role was ever
\* stopped with INTERRUPTED, a new Message {role, content} is appended.
C3_RoleChangeStartsMessage ==
    [][\A id \in Ids :
          LET e == eventHist'.eventMessageCache[id]
              shown == EventShown(eventHist)
          IN  ( /\ Delivers(id)
                /\ EventPromotes /\ ~eventHist'.fault
                /\ \A i \in Ids : ~(seen'[i].stop = "INTERRUPTED" /\ seen'[i].role = e.role)
                /\ shown # <<>>
                /\ Last(shown).role # e.role )
              => EventShown(eventHist') = Append(shown, [role |-> e.role, content |-> e.content])]_vars

StageComplete(h, id) ==
    /\ h.messageCache[id] # NoMessage
    /\ h.generationStageCache[id] = "FINAL"
    /\ h.stopReasonCache[id] \in StopReasons \ {"INTERRUPTED"}

EventComplete(h, id) ==
    LET e == h.eventMessageCache[id]
    IN  /\ e.role \in Roles
        /\ e.content \notin {Undefined, ""}
        /\ e.generationStage \in Stages
        /\ e.stopReason \in StopReasons

\* C5 (as amended): resolution is attempted at every text event and promotes
\* exactly when the entry is complete, and completeness always includes a
\* recorded stop reason: role, non-empty content, generationStage and
\* stopReason in the eventMessages revision; role, content, stage FINAL and a
\* stop reason other than INTERRUPTED in the generationStageCache revision.
C5_ResolvesOnceStopKnown ==
    [][\A id \in Ids : Delivers(id) =>
          /\ ~eventHist.fault => (EventPromotes <=> EventComplete(eventHist', id))
          /\ ~stageHist.fault => (StagePromotes <=> StageComplete(stageHist', id))]_vars

\* C5 (as claimed): an entry whose role, content and generationStage FINAL are
\* known resolves at that update even if no stop reason has arrived.
C5_FinalResolvesWithoutStop ==
    [][\A id \in Ids :
          LET e == eventHist'.eventMessageCache[id]
          IN  ( /\ Delivers(id)
                /\ ~eventHist.fault
                /\ e.role \in Roles /\ e.content \notin {Undefined, ""}
                /\ e.generationStage = "FINAL" )
              => EventPromotes]_vars

\* A SPECULATIVE entry with a stop reason sits in eventMessages while a FINAL
\* entry with role and content, but no stop reason yet, does not.
C5_Witness ==
    /\ ~eventHist.fault
    /\ "g1" \in EventIdsPromoted(eventHist)
    /\ eventHist.eventMessageCache["g1"].generationStage = "SPECULATIVE"
    /\ eventHist.eventMessageCache["g2"].generationStage = "FINAL"
    /\ eventHist.eventMessageCache["g2"].content = "bar"
    /\ eventHist.eventMessageCache["g2"].stopReason = Undefined
    /\ "g2" \notin EventIdsPromoted(eventHist)

(***************************************************************************)
(* C6 .. C10: the session controller.                                      *)
(***************************************************************************)
\* The envelopes of a session start, in the order the protocol wants them.
StartUp(ch, p) ==
    <<Envelope(ch, "promptStart", Undefined, 0),
      Envelope(ch, "systemPrompt", p, 0),
      Envelope(ch, "audioStart", Undefined, 0)>>

IsPrefix(a, b) == Len(a) <= Len(b) /\ a = SubSeq(b, 1, Len(a))

SystemOnly(p) == <<[role |-> "system", content |-> p]>>

\* C6: in the first session, once `ready` was delivered after startSession(p)
\* with a non-empty p, the controller is sending promptStart, systemPrompt(p),
\* audioStart in that order, each once, before any audioInput; and when
\* startRecording is over the transcript is the one system Message.
C6_EndToEndStart ==
    ( /\ Len(sessions) = 1 /\ closeCalls = 0
      /\ Truthy(systemPromptRef)
      /\ inbound.ready = 1 /\ Delivered = 0 )
    => /\ Len(recordings) = 1
       /\ \/ IsPrefix(outbound, StartUp(channelRef, systemPromptRef))
          \/ /\ IsPrefix(StartUp(channelRef, systemPromptRef), outbound)
             /\ \A i \in 4..Len(outbound) : outbound[i].event = "audioInput"
       /\ Len(outbound) >= (CASE recordings[1] = "systemPrompt" -> 1
                              [] recordings[1] = "audioStart" -> 2
                              [] OTHER -> 3)
       /\ recordings[1] = "done" =>
             /\ StageShown(stageHist) = SystemOnly(systemPromptRef)
             /\ EventShown(eventHist) = SystemOnly(systemPromptRef)
             /\ PartialShown(partialHist) = SystemOnly(systemPromptRef)

\* C7: between two closeSession calls (or before the first) at most one
\* channel is opened, however often startSession is called.
C7_OneChannelWithoutClose == connectsSinceClose <= 1

\* The controller state closeSession can touch.
controller == <<isActive, isLoading, systemPromptRef, audioPlayerRef, channelRef, audioContextRef,
                audioStreamRef, sourceNodeRef, processorRef, audioInputQueue, loops, captures>>

\* The controller was Active, with its start-up over, when closeSession was
\* last called; that call is over and startSession has not been called since.
TornDown == closedFromActive /\ closing = 0

\* C8: closeSession called on an Idle controller (never started, or torn down
\* after a session) publishes nothing and changes no controller state.
C8_CloseOnIdleIsNoOp ==
    [][( /\ closeCalls' # closeCalls
         /\ ~isActive /\ ~isLoading
         /\ (sessions = <<>> \/ TornDown) )
       => (outbound' = outbound /\ UNCHANGED controller)]_vars

\* C9: once closeSession from Active is over, the controller is Idle, capture
\* is stopped, audioStop was published, the audio resources are released, and
\* the channel is closed: no envelope is delivered and none is published.
C9_CloseTearsDown ==
    [][/\ TornDown' =>
             /\ ~isActive' /\ ~isLoading'
             /\ captures' = 0
             /\ Published(outbound', "audioStop") > 0
             /\ ~audioPlayerRef' /\ ~audioContextRef' /\ ~audioStreamRef'
             /\ ~sourceNodeRef' /\ ~processorRef'
       /\ TornDown =>
             /\ inbound' = inbound /\ seen' = seen
             /\ TornDown' => outbound' = outbound]_vars

\* C10: an inbound `end` handled while the session is Active stops capture
\* and publishes audioStop, as closeSession does, and leaves isActive unset.
C10_EndTearsDown ==
    [][(inbound'.end # inbound.end /\ isActive)
       => /\ ~isActive'
          /\ captures' = 0 /\ ~processorRef'
          /\ Published(outbound', "audioStop") = Published(outbound, "audioStop") + 1]_vars

(***************************************************************************)
(* C11 .. C20: the batching loop, failures and races of the controller.    *)
(***************************************************************************)
\* The controller is Idle and the closeSession that made it so is over.
IdleAfterClose == TornDown /\ ~isActive /\ ~isLoading

\* C11: once closeSession has brought the controller from Active to Idle, the
\* batching loop is stopped: no tick of it publishes another audioInput
\* envelope (until startSession is called again).
C11_LoopStopsAtIdle ==
    [][IdleAfterClose =>
          Published(outbound', "audioInput") = Published(outbound, "audioInput")]_vars

\* C12: every audioInput envelope the scheduler publishes carries at least
\* MIN_AUDIO_CHUNKS_PER_BATCH and at most MAX_AUDIO_CHUNKS_PER_BATCH chunks,
\* all of them taken from the queue in that tick, and a tick that finds no
\* more than MIN_AUDIO_CHUNKS_PER_BATCH chunks queued publishes nothing.
C12_BatchingBounds ==
    [][\A i \in (Len(outbound) + 1)..Len(outbound') :
           outbound'[i].event = "audioInput" =>
               /\ outbound'[i].chunks >= MIN_AUDIO_CHUNKS_PER_BATCH
               /\ outbound'[i].chunks <= MAX_AUDIO_CHUNKS_PER_BATCH
               /\ audioInputQueue > MIN_AUDIO_CHUNKS_PER_BATCH
               /\ audioInputQueue' = audioInputQueue - outbound'[i].chunks]_vars

\* A batch cut at the high-water mark, with chunks left behind, was followed by
\* a batch just above the low-water mark.
C12_Witness ==
    \E i, j \in 1..Len(outbound) :
        /\ i < j
        /\ outbound[i].event = "audioInput"
        /\ outbound[i].chunks = MAX_AUDIO_CHUNKS_PER_BATCH
        /\ outbound[j].event = "audioInput"
        /\ outbound[j].chunks = MIN_AUDIO_CHUNKS_PER_BATCH + 1

\* C13: a rejected publish of an audio batch leaves the batching loop running
\* and the chunks taken for that batch in the queue.
C13_FailedPublishRecovered ==
    [][rejected' # rejected =>
          /\ loops' = loops
          /\ audioInputQueue' >= audioInputQueue]_vars

\* C14: a subscription error delivered while the session is Active tears the
\* session down as closeSession does: capture stops, audioStop is published
\* and isActive is reset.
C14_TransportErrorIsTerminal ==
    [][(inbound'.error # inbound.error /\ isActive)
       => /\ ~isActive'
          /\ captures' = 0 /\ ~processorRef'
          /\ Published(outbound', "audioStop") = Published(outbound, "audioStop") + 1]_vars

\* C15: when events.connect or the handshake POST of the latest startSession
\* call has failed, the controller is Idle: neither isLoading nor isActive is
\* set.
C15_ConnectErrorLeavesIdle ==
    ( /\ sessions # <<>>
      /\ Last(sessions).pc \in {"connectError", "postError"} )
    => (~isLoading /\ ~isActive)

\* C16: while the latest startSession call is one whose getUserMedia was
\* refused, no step makes the session Active: isActive is not set, no
\* promptStart or audioStart is published, no capture node is connected and no
\* batching loop is started.
C16_PermissionDeniedNeverActive ==
    [][( /\ sessions # <<>>
         /\ Last(sessions).pc = "permissionDenied"
         /\ sessions' = sessions )
       => /\ isActive' => isActive
          /\ Published(outbound', "promptStart") = Published(outbound, "promptStart")
          /\ Published(outbound', "audioStart") = Published(outbound, "audioStart")
          /\ captures' <= captures
          /\ loops' <= loops]_vars

\* C17: an envelope whose direction is not btoc, or whose tag is not an inbound
\* one, changes neither the session state, nor the transcript, nor what was
\* played, nor the outbound queue, and publishes nothing.
C17_InboundFiltering ==
    [][inbound'.other # inbound.other =>
          /\ UNCHANGED <<stageHist, eventHist, partialHist, ctrlButInbound>>
          /\ inbound'.played = inbound.played]_vars

\* Such an envelope reached the handler of an Active session whose player is
\* running and whose transcript holds the system prompt.
C17_Witness ==
    /\ inbound.other > 0
    /\ isActive
    /\ audioPlayerRef
    /\ Len(recordings) = 1 /\ recordings[1] = "done"
    /\ PartialShown(partialHist) # <<>>

\* C18: the integer stored for a sample never wraps (it lies in the signed
\* 16-bit range and has the sign of the sample, samples beyond [-1, 1] giving
\* what -1 or 1 gives), and a sample of [-1, 1] comes back from the round trip
\* within 1/32768 of itself.
C18_RoundTripCodec ==
    /\ \A i \in 1..Len(int16Array) :
          /\ int16Array[i] \in (0 - INT16_RANGE)..INT16_MAX
          /\ inputData >= 0 => int16Array[i] >= 0
          /\ inputData <= 0 => int16Array[i] <= 0
          /\ Abs(inputData) >= SampleGrid => Abs(int16Array[i]) >= INT16_MAX
    /\ \A i \in 1..Len(float32Array) :
          Abs(inputData) <= SampleGrid =>
              Abs(float32Array[i] - inputData) * INT16_RANGE <= SampleGrid

\* C19: in a first session started with a non-empty prompt, an inbound `ready`
\* starts the start-up (promptStart is published and startRecording is under
\* way) whether or not initAudio has finished when it is delivered.
C19_ReadyMakesActive ==
    [][( /\ inbound'.ready # inbound.ready
         /\ Len(sessions) = 1 /\ closeCalls = 0
         /\ isLoading /\ ~isActive
         /\ Truthy(systemPromptRef)
         /\ sessions[1].pc \in {"getUserMedia", "audioPlayerStart", "done"} )
       => /\ Published(outbound', "promptStart") = 1
          /\ Len(recordings') = 1
          /\ isLoading']_vars

\* C20: after a closeSession that followed the only startSession call before
\* the session was ever Active, the controller is Idle once that call is over
\* and stays so: no later step sets isActive, connects a capture node or
\* starts the batching loop.
C20_CloseWhileConnectingStaysIdle ==
    [][( /\ Len(sessions) = 1 /\ sessions' = sessions
         /\ closeCalls > 0 /\ connectsSinceClose = 0
         /\ loops = 0 )
       => /\ ~isActive'
          /\ captures' = 0
          /\ loops' = 0
          /\ closing' = 0 => ~isLoading']_vars

(***************************************************************************)
(* C21 .. C30.                                                             *)
(***************************************************************************)
\* C21: once closeSession, called on an Active session, has published that
\* session's audioStop, no audioInput envelope is published (until startSession
\* is called again).
C21_NoAudioInputAfterAudioStop ==
    [][( /\ closedFromActive
         /\ Published(outbound, "audioStop") > 0 )
       => Published(outbound', "audioInput") = Published(outbound, "audioInput")]_vars

\* C22: clear() puts the reconciler in the state of a freshly created one: in
\* every reachable state, clearing revision 2 and revision 3 yields an empty
\* message list, no cached content or stop reason for any id, and the interrupted
\* flag unset.
C22_ClearResetsReconciler ==
    /\ ~eventHist.fault => EventClear(eventHist) = EventHistInit
    /\ PartialClear(partialHist) = PartialHistInit

\* What a cache holds as text: nothing cached counts as the empty string.
TextOf(content) == IF content = Undefined THEN "" ELSE content

\* C23: when a textOutput event arrives for a generation id, the content cached
\* for that id afterwards is the content cached before followed by the fragment
\* of the event (revision 1 and revision 2); a later fragment never overwrites
\* an earlier one.
C23_ContentAccumulates ==
    [][\A id \in Ids :
          seen'[id].output = seen[id].output + 1 =>
              /\ ~eventHist'.fault =>
                    \E f \in Contents :
                        eventHist'.eventMessageCache[id].content
                            = TextOf(eventHist.eventMessageCache[id].content) \o f
              /\ ~stageHist'.fault =>
                    \E f \in Contents :
                        stageHist'.messageCache[id].content
                            = TextOf(stageHist.messageCache[id].content) \o f]_vars

\* C24: no captured audio is lost: when publishes succeed and the scheduler runs
\* fairly, chunks that are in the queue once a session that was Active has been
\* closed are eventually published (the queue is drained), as long as the
\* scheduler may still publish.
C24_QueueDrainedAfterClose ==
    ( /\ IdleAfterClose
      /\ audioInputQueue > 0
      /\ Published(outbound, "audioInput") < MaxBatches )
        ~> (audioInputQueue = 0)

\* C25: at most one batching loop exists at any time, and at most one capture
\* processor feeds the queue.
C25_OneLoopOneCapture == loops <= 1 /\ captures <= 1

\* C26: the merge step never runs on an empty transcript: in every reachable
\* state no updater of revision 1 or revision 2 has dereferenced the missing
\* last message of an empty list.
C26_MergeNeverOnEmpty == ~stageHist.fault /\ ~eventHist.fault

\* The roles of the entries a group contributes.
RolesOf(ms) == {ms[i].role : i \in 1..Len(ms)}

\* The loop of the `messages` memo (lines 214..251) once more, keeping for each
\* Message the roles of the entries whose content it received instead of the
\* content itself.
RECURSIVE DeriveSources(_, _, _)
DeriveSources(groups, res, interrupted) ==
    IF groups = <<>> THEN res
    ELSE LET ms == Head(groups)
         IN  IF interrupted
             THEN IF res = <<>> THEN res
                  ELSE DeriveSources(Tail(groups),
                          [res EXCEPT ![Len(res)].from = @ \cup RolesOf(ms)], FALSE)
             ELSE LET interruptedIndex == InterruptedIndex(ms)
                  IN  IF interruptedIndex = 1
                      THEN DeriveSources(Tail(groups), res, TRUE)
                      ELSE IF interruptedIndex > 1
                      THEN DeriveSources(Tail(groups),
                              Append(res, [role |-> ms[1].role,
                                           from |-> RolesOf(SubSeq(ms, 1, interruptedIndex - 1))]),
                              FALSE)
                      ELSE DeriveSources(Tail(groups),
                              Append(res, [role |-> ms[1].role, from |-> RolesOf(ms)]),
                              FALSE)

\* C27: role purity of the derived transcript: each Message of `messages`
\* holds only content of entries whose role is the Message's role, and the
\* derivation never indexes an empty result list.
C27_RolePurity ==
    ~eventHist.fault =>
        /\ ~DeriveMessages(eventHist.eventMessages, <<>>, FALSE).fault
        /\ LET sources == DeriveSources(eventHist.eventMessages, <<>>, FALSE)
           IN  \A i \in 1..Len(sources) : sources[i].from = {sources[i].role}

\* The entries of a group up to position k are FINAL, the others SPECULATIVE.
FinalsThenSpeculatives(ms) ==
    \A k \in 1..Len(ms) :
        ms[k].generationStage = (IF k <= CountFinals(ms) THEN "FINAL" ELSE "SPECULATIVE")

\* The assistant generations that resolved as SPECULATIVE entries.
SpeculativesResolved(h) ==
    {i \in Ids : /\ EventResolvable(h.eventMessageCache[i])
                 /\ h.eventMessageCache[i].role = "assistant"
                 /\ h.eventMessageCache[i].generationStage = "SPECULATIVE"}

\* C28 (groups): each group of eventMessages is non-empty, holds entries of a
\* single role, and has its FINAL entries as a prefix followed by its
\* SPECULATIVE entries.
C28_GroupsStaged ==
    \A g \in 1..Len(eventHist.eventMessages) :
        LET ms == eventHist.eventMessages[g]
        IN  /\ ms # <<>>
            /\ \A k \in 1..Len(ms) : ms[k].role = ms[1].role
            /\ FinalsThenSpeculatives(ms)

\* C28 (replacement): a newly resolved FINAL entry of the last group's role
\* replaces the oldest remaining SPECULATIVE entry of that group, or is
\* appended when none remains.
C28_FinalReplacesOldestSpeculative ==
    [][\A id \in Ids :
          LET e == eventHist'.eventMessageCache[id]
              groups == eventHist.eventMessages
              ms == Last(groups)
              f == CountFinals(ms)
          IN  ( /\ Delivers(id)
                /\ EventPromotes /\ ~eventHist'.fault
                /\ groups # <<>>
                /\ e.generationStage = "FINAL"
                /\ ms[1].role = e.role )
              => /\ Len(eventHist'.eventMessages) = Len(groups)
                 /\ Last(eventHist'.eventMessages) =
                        IF f < Len(ms) THEN [ms EXCEPT ![f + 1] = e] ELSE Append(ms, e)]_vars

\* C28 (speaking): once as many FINAL as SPECULATIVE entries have resolved for
\* the assistant group that is last, isAssistantSpeeching is false.
C28_FinalsSettleSpeaking ==
    ( /\ ~eventHist.fault
      /\ eventHist.eventMessages # <<>>
      /\ Last(eventHist.eventMessages)[1].role = "assistant"
      /\ CountFinals(Last(eventHist.eventMessages)) >= Cardinality(SpeculativesResolved(eventHist)) )
        => ~EventIsAssistantSpeeching(eventHist)

\* C29: mutual exclusion of the send loop of the worklet hook: at most one
\* execution of processAudioQueue is between setting and clearing
\* isProcessingAudioRef, so two batches are never being published at once.
C29_OneExecution == Len(publishing) <= 1

\* C30: the queue of the worklet hook holds at most MAX_QUEUE_SIZE chunks in
\* every reachable state.
C30_QueueBounded == audioBufferQueueRef <= MAX_QUEUE_SIZE

====
